---------------------------- MODULE Spec2Model ----------------------------
(***************************************************************************)
(* Model of Enhance_preprocessing.ipynb: text normalisation, the query     *)
(* registry, the relevance scorer (lexical + embedding sub-scores) and     *)
(* process_folder, which scores every (query, file) pair, normalises the   *)
(* batch, de-duplicates it per query and appends it to the output CSV.     *)
(*                                                                         *)
(* Text is a sequence of one-character strings, so that lower-casing,      *)
(* punctuation removal, splitting and the substring test are computed      *)
(* character by character, as Python computes them.  Scores are kept in    *)
(* quarter units (four model units per 1.0), which makes every             *)
(* product of the weight table an integer; a normalised score is a         *)
(* reduced fraction <<numerator, denominator>>.                            *)
(***************************************************************************)
EXTENDS Integers, Sequences, FiniteSets, TLC

(***************************************************************************)
(* Vocabulary: the words of the registry, of the abbreviation table, of    *)
(* the stop-word list and of the input files.                              *)
(***************************************************************************)
w_glucose == <<"g", "l", "u", "c", "o", "s", "e">>
w_in == <<"i", "n">>
w_blood == <<"b", "l", "o", "o", "d">>
w_bilirubin == <<"b", "i", "l", "i", "r", "u", "b", "i", "n">>
w_plasma == <<"p", "l", "a", "s", "m", "a">>
w_cells == <<"c", "e", "l", "l", "s">>
w_calcium == <<"c", "a", "l", "c", "i", "u", "m">>
w_serum == <<"s", "e", "r", "u", "m">>
w_urine == <<"u", "r", "i", "n", "e">>
w_leukocytes == <<"l", "e", "u", "k", "o", "c", "y", "t", "e", "s">>
w_mass == <<"m", "a", "s", "s">>
w_concentration == <<"c", "o", "n", "c", "e", "n", "t", "r", "a", "t", "i", "o", "n">>
w_substance == <<"s", "u", "b", "s", "t", "a", "n", "c", "e">>
w_product == <<"p", "r", "o", "d", "u", "c", "t">>
w_unit == <<"u", "n", "i", "t">>
w_fluid == <<"f", "l", "u", "i", "d">>
w_group == <<"g", "r", "o", "u", "p">>
w_sodium == <<"s", "o", "d", "i", "u", "m">>

(***************************************************************************)
(* Python string primitives.                                               *)
(***************************************************************************)
EmptyStr == << >>

\* The value of a cell that is not a str (a float NaN of a pandas column).
NaN == <<"NaN">>

\* isinstance(x, str)
IsStr(x) == x # NaN

LowerLetters ==
    <<"a", "b", "c", "d", "e", "f", "g", "h", "i", "j", "k", "l", "m",
      "n", "o", "p", "q", "r", "s", "t", "u", "v", "w", "x", "y", "z">>

UpperLetters ==
    <<"A", "B", "C", "D", "E", "F", "G", "H", "I", "J", "K", "L", "M",
      "N", "O", "P", "Q", "R", "S", "T", "U", "V", "W", "X", "Y", "Z">>

Digits == {"0", "1", "2", "3", "4", "5", "6", "7", "8", "9"}

Whitespace == {" "}

Range(s) == {s[i] : i \in 1..Len(s)}

\* str.lower() on one character
LowerChar(ch) ==
    IF \E i \in 1..26 : UpperLetters[i] = ch
    THEN LowerLetters[CHOOSE i \in 1..26 : UpperLetters[i] = ch]
    ELSE ch

\* str.lower()
Lower(s) == [i \in 1..Len(s) |-> LowerChar(s[i])]

\* The regular-expression class \w (letters, digits, underscore)
IsWordChar(ch) ==
    ch \in Range(LowerLetters) \cup Range(UpperLetters) \cup Digits \cup {"_"}

\* re.sub(r'[^\w\s]', ' ', text)
StripPunctuation(s) ==
    [i \in 1..Len(s) |->
        IF IsWordChar(s[i]) \/ s[i] \in Whitespace THEN s[i] ELSE " "]

\* str.split(): the maximal runs of non-whitespace characters, in order
RECURSIVE SplitFrom(_, _, _)
SplitFrom(s, i, cur) ==
    IF i > Len(s)
    THEN IF cur = << >> THEN << >> ELSE <<cur>>
    ELSE IF s[i] \in Whitespace
         THEN IF cur = << >>
              THEN SplitFrom(s, i + 1, << >>)
              ELSE <<cur>> \o SplitFrom(s, i + 1, << >>)
         ELSE SplitFrom(s, i + 1, Append(cur, s[i]))

Split(s) == SplitFrom(s, 1, << >>)

\* " ".join(words)
RECURSIVE Join(_)
Join(words) ==
    IF words = << >> THEN EmptyStr
    ELSE IF Len(words) = 1 THEN words[1]
    ELSE words[1] \o <<" ">> \o Join(Tail(words))

\* needle in haystack (Python's substring test on str)
Contains(haystack, needle) ==
    \E i \in 0..(Len(haystack) - Len(needle)) :
        SubSeq(haystack, i + 1, i + Len(needle)) = needle

RECURSIVE FilterSeq(_, _)
FilterSeq(s, bad) ==
    IF s = << >> THEN << >>
    ELSE IF s[1] \in bad THEN FilterSeq(Tail(s), bad)
    ELSE <<s[1]>> \o FilterSeq(Tail(s), bad)

(***************************************************************************)
(* Static tables of the notebook.                                          *)
(***************************************************************************)
Sp == <<" ">>

\* query_mapping, in insertion order (dict iteration order)
query_mapping ==
    << [query |-> "glucose in blood",
        text |-> w_glucose \o Sp \o w_in \o Sp \o w_blood,
        component |-> w_glucose, system |-> w_blood],
       [query |-> "bilirubin in plasma",
        text |-> w_bilirubin \o Sp \o w_in \o Sp \o w_plasma,
        component |-> w_bilirubin, system |-> w_plasma],
       [query |-> "white blood cells count",
        text |-> <<"w", "h", "i", "t", "e">> \o Sp \o w_blood \o Sp \o w_cells \o Sp \o <<"c", "o", "u", "n", "t">>,
        component |-> w_leukocytes, system |-> w_blood],
       [query |-> "calcium in serum",
        text |-> w_calcium \o Sp \o w_in \o Sp \o w_serum,
        component |-> w_calcium, system |-> w_serum],
       [query |-> "cells in urine",
        text |-> w_cells \o Sp \o w_in \o Sp \o w_urine,
        component |-> w_cells, system |-> w_urine] >>

Queries == 1..Len(query_mapping)

\* abbreviation_mapping: token -> expansion
abbreviation_mapping ==
    << << <<"c">>, <<"c", "o", "m", "p", "o", "n", "e", "n", "t">> >>,
       << <<"m", "c", "n", "c">>, w_mass \o Sp \o w_concentration>>,
       << <<"b", "l", "d">>, w_blood>>,
       << <<"s", "c", "n", "c">>, w_substance \o Sp \o w_concentration>>,
       << <<"s", "u", "s", "c">>, <<"s", "u", "s", "c", "e", "p", "t", "i", "b", "i", "l", "i", "t", "y">> >>,
       << <<"a", "c", "n", "c">>, <<"a", "m", "o", "u", "n", "t">> \o Sp \o w_concentration>>,
       << <<"p", "l", "a", "s">>, w_plasma>>,
       << <<"c", "c", "n", "c">>, <<"c", "e", "l", "l">> \o Sp \o w_concentration>>,
       << <<"n", "c", "n", "c">>, <<"n", "u", "m", "b", "e", "r">> \o Sp \o w_concentration>>,
       << <<"X", "X", "X">>, <<"u", "n", "k", "n", "o", "w", "n">> >>,
       << <<"b", "p", "u">>, w_blood \o Sp \o w_product \o Sp \o w_unit>>,
       << <<"f", "l", "d">>, w_fluid>>,
       << <<"a", "b", "o">>, <<"a", "b", "o">> \o Sp \o w_blood \o Sp \o w_group>>,
       << <<"s", "e", "r">>, w_serum>>,
       << <<"m", "s", "c", "n", "c">>, w_mass \o Sp \o w_substance \o Sp \o w_concentration>>,
       << <<"b", "b", "l">>, w_blood \o Sp \o w_product \o Sp \o w_unit>>,
       << <<"r", "b", "c">>, <<"r", "e", "d">> \o Sp \o w_blood \o Sp \o w_cells>>,
       << <<"b", "l", "d", "a">>, w_blood \o Sp \o w_group \o Sp \o <<"a">> >>,
       << <<"b", "l", "d", "v">>, w_blood \o Sp \o w_group \o Sp \o <<"v">> >>,
       << <<"t", "i", "s", "s">>, <<"t", "i", "s", "s", "u", "e">> >>,
       << <<"b", "l", "d", "c", "o">>, <<"c", "o", "o", "r", "d">> \o Sp \o w_blood>>,
       << <<"c", "s", "f">>, <<"c", "e", "r", "e", "b", "r", "o", "s", "p", "i", "n", "a", "l">> \o Sp \o w_fluid>> >>

\* dict.get(key, default) on a table of <<key, value>> pairs
DictGet(dict, key, default) ==
    IF \E i \in 1..Len(dict) : dict[i][1] = key
    THEN dict[CHOOSE i \in 1..Len(dict) : dict[i][1] = key][2]
    ELSE default

\* stop_words: the entries of nltk's English stop-word list that occur in
\* the vocabulary of the model
stop_words == {w_in, <<"o", "f">>, <<"t", "h", "e">>, <<"a", "n", "d">>, <<"o", "r">>, <<"a">>}

\* The WordNet noun lemmas among the vocabulary of the model
WordNetLemmas ==
    {w_glucose, w_blood, w_bilirubin, w_plasma, <<"w", "h", "i", "t", "e">>, <<"c", "o", "u", "n", "t">>, w_calcium,
     w_serum, w_urine, <<"l", "e", "u", "k", "o", "c", "y", "t", "e">>, <<"c", "e", "l", "l">>, <<"c", "o", "m", "p", "o", "n", "e", "n", "t">>, w_mass,
     w_concentration, w_substance, <<"s", "u", "s", "c", "e", "p", "t", "i", "b", "i", "l", "i", "t", "y">>, <<"a", "m", "o", "u", "n", "t">>, <<"n", "u", "m", "b", "e", "r">>,
     <<"u", "n", "k", "n", "o", "w", "n">>, w_product, w_unit, w_fluid, w_group, <<"r", "e", "d">>, <<"t", "i", "s", "s", "u", "e">>,
     w_sodium, <<"h", "a", "i", "r">>, <<"v", "o", "l", "u", "m", "e">>}

\* word without a final "s" (the detachment rule of WordNet's morphy for
\* nouns that the vocabulary exercises)
Detach(word) ==
    IF Len(word) > 1 /\ word[Len(word)] = "s"
    THEN SubSeq(word, 1, Len(word) - 1) ELSE word

\* The candidate if it is a lemma, else the word itself
LemmaOr(candidate, word) ==
    IF candidate \in WordNetLemmas THEN candidate ELSE word

\* lemmatizer.lemmatize(word)
lemmatize(word) == LemmaOr(Detach(word), word)

LemmatizeAll(words) == [i \in 1..Len(words) |-> lemmatize(words[i])]

\* ExpandAll that keeps the abbreviation in front of its expansion
ExpandAllKeepsWord(words) ==
    [i \in 1..Len(words) |->
        DictGet(abbreviation_mapping, words[i], << >>)
        \o (IF DictGet(abbreviation_mapping, words[i], << >>) = << >>
            THEN << >> ELSE Sp)
        \o words[i]]

ExpandAll(words) ==
    [i \in 1..Len(words) |-> DictGet(abbreviation_mapping, words[i], words[i])]

\* clean_text(text)
clean_text(text) ==
    IF IsStr(text)
    THEN Join(LemmatizeAll(FilterSeq(Split(StripPunctuation(Lower(text))),
                                     stop_words)))
    ELSE EmptyStr

\* replace_abbreviations(text)
replace_abbreviations(text) ==
    IF IsStr(text) THEN Join(ExpandAll(Split(text))) ELSE text

(***************************************************************************)
(* Numbers.  A raw score is an integer number of quarter units (45.0 is    *)
(* 180); a weight is kept doubled (6.0 is 12), so that weight * weight and *)
(* (weight * 0.5) * weight are integers in quarter units.                  *)
(***************************************************************************)
RECURSIVE GCD(_, _)
GCD(a, b) == IF b = 0 THEN a ELSE GCD(b, a % b)

Reduce(n, d, g) == <<n \div g, d \div g>>

\* The quotient n / d of two floats, as a reduced fraction (d > 0, n >= 0)
Frac(n, d) == Reduce(n, d, GCD(n, d))

One == <<1, 1>>
Zero == <<0, 1>>

RECURSIVE SumSeq(_)
SumSeq(s) == IF s = << >> THEN 0 ELSE s[1] + SumSeq(Tail(s))

SeqMin(s) == CHOOSE m \in Range(s) : \A v \in Range(s) : m <= v
SeqMax(s) == CHOOSE m \in Range(s) : \A v \in Range(s) : m >= v

\* The elements of a finite set of integers, in ascending order
AscendingSeq(S) ==
    [k \in 1..Cardinality(S) |->
        CHOOSE i \in S : Cardinality({j \in S : j < i}) = k - 1]

\* column_weights, doubled
column_weights ==
    [name |-> 3, component |-> 12, long_common_name |-> 2, system |-> 6,
     property |-> 2, measurement_type |-> 2, loinc_num |-> 0, status |-> 1,
     example_units |-> 2]

\* column_weights.get(key, 1.0), doubled
WeightGet(key) ==
    IF key \in DOMAIN column_weights THEN column_weights[key] ELSE 2

(***************************************************************************)
(* The embedding backend.  SentenceTransformer.encode is a deterministic   *)
(* map from text to a vector; it is represented by a map onto unit axis    *)
(* vectors of the plane (four directions for the primary model, two for    *)
(* the secondary one), so that cosine similarity is -1, 0 or 1.            *)
(***************************************************************************)
Models == {"BioBERT-MNLI", "all-MiniLM-L6-v2"}

\* Python's None where a vector is expected
None == << >>

Axes == << <<1, 0>>, <<0, 1>>, <<-1, 0>>, <<0, -1>> >>

\* embedding_model.encode(text), for a text on which it does not raise
Encode(model, text) ==
    IF model = "BioBERT-MNLI" THEN Axes[(Len(text) % 4) + 1]
    ELSE Axes[(Len(text) % 2) + 1]

\* cosine_similarity([u], [v])[0][0] of two unit vectors
cosine_similarity(u, v) == u[1] * v[1] + u[2] * v[2]

(***************************************************************************)
(* Input files.  A DataFrame is a sequence of column names and a sequence  *)
(* of rows, each row a sequence of cells aligned with the columns.         *)
(***************************************************************************)
\* The column layout of a LOINC search export (19 columns)
StdColumns ==
    <<"LOINC_NUM", "COMPONENT", "PROPERTY", "TIME_ASPCT", "SYSTEM",
      "SCALE_TYP", "METHOD_TYP", "CLASS", "VERSIONLASTCHANGED", "CHNG_TYPE",
      "DEFINITIONDESCRIPTION", "STATUS_REASON", "CONSUMER_NAME", "CLASSTYPE",
      "LONG_COMMON_NAME", "SHORTNAME", "EXAMPLE_UCUM_UNITS", "ORDER_OBS",
      "COMMON_TEST_RANK">>

\* The same layout as another export writes it (padding and lower case)
LooseColumns ==
    <<" loinc_num", "Component ", "PROPERTY", "TIME_ASPCT", "system",
      "SCALE_TYP", "METHOD_TYP", "CLASS", "VERSIONLASTCHANGED", "CHNG_TYPE",
      "DEFINITIONDESCRIPTION", "STATUS_REASON", "CONSUMER_NAME", "CLASSTYPE",
      "Long_Common_Name", "SHORTNAME", "EXAMPLE_UCUM_UNITS", "ORDER_OBS",
      "COMMON_TEST_RANK">>

\* The columns of an export that writes SYSTEM before COMPONENT
SwappedColumns ==
    [i \in 1..Len(StdColumns) |->
        IF i = 2 THEN StdColumns[5] ELSE IF i = 5 THEN StdColumns[2]
        ELSE StdColumns[i]]

\* name.strip().upper() on the column names the input files use
StripUpper(name) ==
    CASE name = " loinc_num" -> "LOINC_NUM"
      [] name = "Component " -> "COMPONENT"
      [] name = "system" -> "SYSTEM"
      [] name = "Long_Common_Name" -> "LONG_COMMON_NAME"
      [] OTHER -> name

\* The cell of a CSV line under a column: the value given, NaN when empty
CellOf(cells, key) == IF key \in DOMAIN cells THEN cells[key] ELSE NaN

\* One line of a CSV file
MkRow(columns, cells) ==
    [i \in 1..Len(columns) |-> CellOf(cells, StripUpper(columns[i]))]

id1 == <<"1">>
id2 == <<"2", "2">>
id3 == <<"3", "3", "3">>
id4 == <<"4", "4", "4", "4">>
id5 == <<"5", "5", "5", "5", "5">>
id7 == <<"7", "-", "7">>

p_MCnc == <<"M", "C", "n", "c">>
p_NCnc == <<"N", "C", "n", "c">>

\* "Glucose [Mass/volume] in Blood"
NameGlucose ==
    <<"G", "l", "u", "c", "o", "s", "e", " ", "[", "M", "a", "s", "s", "/",
      "v", "o", "l", "u", "m", "e", "]", " ", "i", "n", " ", "B", "l", "o",
      "o", "d">>

\* "Glucose, urine"
CompGlucoseUrine ==
    <<"G", "l", "u", "c", "o", "s", "e", ",", " ", "u", "r", "i", "n", "e">>

\* "Bld/Ser"
SysBldSer == <<"B", "l", "d", "/", "S", "e", "r">>

RowsGlucose ==
    << [LOINC_NUM |-> id1, COMPONENT |-> w_glucose, SYSTEM |-> w_blood,
        PROPERTY |-> p_MCnc, LONG_COMMON_NAME |-> NameGlucose],
       [LOINC_NUM |-> id2,
        COMPONENT |-> w_glucose \o Sp \o w_in \o Sp \o w_urine,
        SYSTEM |-> w_blood, PROPERTY |-> p_MCnc,
        LONG_COMMON_NAME |-> w_glucose \o Sp \o w_in \o Sp \o w_urine],
       [LOINC_NUM |-> id3, COMPONENT |-> w_bilirubin, SYSTEM |-> w_serum,
        PROPERTY |-> p_MCnc, LONG_COMMON_NAME |-> NaN] >>

RowsBlood ==
    << [LOINC_NUM |-> id1, COMPONENT |-> <<"C", "e", "l", "l", "s">>,
        SYSTEM |-> <<"U", "r", "i", "n", "e">>, PROPERTY |-> p_NCnc,
        LONG_COMMON_NAME |-> w_cells \o Sp \o w_in \o Sp \o w_urine],
       [LOINC_NUM |-> id2, COMPONENT |-> CompGlucoseUrine,
        SYSTEM |-> SysBldSer, PROPERTY |-> p_MCnc,
        LONG_COMMON_NAME |-> NameGlucose],
       [LOINC_NUM |-> id4,
        COMPONENT |-> <<"L", "e", "u", "k", "o", "c", "y", "t", "e", "s">>,
        SYSTEM |-> <<"B", "l", "d">>, PROPERTY |-> p_NCnc,
        LONG_COMMON_NAME |-> w_leukocytes],
       [LOINC_NUM |-> id5,
        COMPONENT |-> <<"L", "e", "u", "k", "o", "c", "y", "t", "e", "s">>,
        SYSTEM |-> <<"B", "l", "d">>, PROPERTY |-> p_NCnc,
        LONG_COMMON_NAME |-> w_leukocytes] >>

RowsFlat ==
    << [LOINC_NUM |-> id7, COMPONENT |-> w_sodium, SYSTEM |-> <<"h", "a", "i", "r">>,
        PROPERTY |-> p_MCnc, LONG_COMMON_NAME |-> w_sodium] >>

MkFile(columns, rows) ==
    [readable |-> TRUE, columns |-> columns,
     rows |-> [i \in 1..Len(rows) |-> MkRow(columns, rows[i])]]

FileNames ==
    {"glucose.csv", "blood.csv", "flat.csv", "broken.csv", "noname.csv",
     "short.csv"}

\* pd.read_csv(file_path): the parsed table, or readable = FALSE when it raises
read_csv(file) ==
    CASE file = "glucose.csv" -> MkFile(StdColumns, RowsGlucose)
      [] file = "blood.csv" -> MkFile(LooseColumns, RowsBlood)
      [] file = "flat.csv" -> MkFile(SwappedColumns, RowsFlat)
      [] file = "noname.csv" ->
            MkFile(<<"LOINC_NUM", "COMPONENT", "SYSTEM">>, RowsFlat)
      [] file = "short.csv" ->
            MkFile(<<"LOINC_NUM", "COMPONENT", "SYSTEM", "LONG_COMMON_NAME">>,
                   RowsGlucose)
      [] OTHER -> [readable |-> FALSE, columns |-> << >>, rows |-> << >>]

(***************************************************************************)
(* DataFrame helpers.                                                      *)
(***************************************************************************)
NoDataset == [columns |-> << >>, rows |-> << >>]

HasColumn(columns, name) == \E i \in 1..Len(columns) : columns[i] = name

\* The position of the (first) column of that name
ColumnIndex(columns, name) ==
    CHOOSE i \in 1..Len(columns) :
        columns[i] = name /\ \A j \in 1..(i - 1) : columns[j] # name

\* The positions of the columns of dtype object: read_csv gives a column
\* the object dtype when one of its cells is text
ObjectColumnSet(df) ==
    {i \in 1..Len(df.columns) : \E r \in 1..Len(df.rows) : IsStr(df.rows[r][i])}

\* dataset.select_dtypes(include=["object"]).columns, as column positions
ObjectColumns(df) == AscendingSeq(ObjectColumnSet(df))

\* re.findall(r"\[(.*?)\]", x) has a match
HasBracketGroup(name) ==
    \E i \in 1..Len(name) :
        name[i] = "[" /\ \E j \in (i + 1)..Len(name) : name[j] = "]"

\* The position of the first occurrence of ch after position from
FirstAfter(name, ch, from) ==
    CHOOSE k \in (from + 1)..Len(name) :
        name[k] = ch /\ \A m \in (from + 1)..(k - 1) : name[m] # ch

Between(name, i) == SubSeq(name, i + 1, FirstAfter(name, "]", i) - 1)

\* re.findall(r"\[(.*?)\]", x)[0]: the text between the first "[" and the
\* first "]" after it
FirstBracketGroup(name) == Between(name, FirstAfter(name, "[", 0))

\* The lambda of process_folder that derives MEASUREMENT_TYPE raises
\* IndexError ([][0]) on a name with "[" and no bracket group
MeasurementRaises(name) ==
    IsStr(name) /\ "[" \in Range(name) /\ ~HasBracketGroup(name)

\* The lambda of process_folder that derives MEASUREMENT_TYPE
MeasurementType(name) ==
    IF IsStr(name) /\ "[" \in Range(name) THEN FirstBracketGroup(name)
    ELSE EmptyStr

\* One column name after .str.strip().str.upper() and the rename of
\* LONG_COMMON_NAME to NAME
RenameColumn(name) == IF name = "LONG_COMMON_NAME" THEN "NAME" ELSE name

StandardizeColumns(columns) ==
    [i \in 1..Len(columns) |-> RenameColumn(StripUpper(columns[i]))]

\* Lines 405-406 on the DataFrame read
Standardize(file) ==
    [columns |-> StandardizeColumns(file.columns), rows |-> file.rows]

AppendMeasurement(df, n) ==
    [columns |-> Append(df.columns, "MEASUREMENT_TYPE"),
     rows |-> [r \in 1..Len(df.rows) |->
                  Append(df.rows[r], MeasurementType(df.rows[r][n]))]]

\* dataset["MEASUREMENT_TYPE"] = dataset["NAME"].apply(...): a new last column
AddMeasurementType(df) == AppendMeasurement(df, ColumnIndex(df.columns, "NAME"))

CleanCells(df, obj) ==
    [columns |-> df.columns,
     rows |-> [r \in 1..Len(df.rows) |->
                  [i \in 1..Len(df.columns) |->
                      IF i \in obj /\ df.columns[i] # "LOINC_NUM"
                      THEN replace_abbreviations(clean_text(df.rows[r][i]))
                      ELSE df.rows[r][i]]]]

\* The loop over the object columns: clean_text, then replace_abbreviations,
\* on every column but LOINC_NUM
CleanColumns(df) == CleanCells(df, ObjectColumnSet(df))

\* row.get(key, "")
RowGet(columns, row, key) ==
    IF HasColumn(columns, key) THEN row[ColumnIndex(columns, key)] ELSE EmptyStr

(***************************************************************************)
(* The relevance scorer.                                                   *)
(***************************************************************************)
\* MatchScore with the substring test made before the equality test
MatchScoreSubstringFirst(term, field, weight) ==
    IF Contains(field, term) THEN (weight * weight) \div 2
    ELSE IF term = field THEN weight * weight
    ELSE 0

\* One branch pair of calculate_traditional_score, for a weight: weight *
\* weight on equality, (weight * 0.5) * weight when the term is a substring
MatchScore(term, field, weight) ==
    IF term = field THEN weight * weight
    ELSE IF Contains(field, term) THEN (weight * weight) \div 2
    ELSE 0

FieldScore(term, field, key) == MatchScore(term, field, WeightGet(key))

\* calculate_traditional_score raises AttributeError (.lower() of a float)
TraditionalRaises(columns, row) ==
    \/ ~IsStr(RowGet(columns, row, "COMPONENT"))
    \/ ~IsStr(RowGet(columns, row, "SYSTEM"))

\* calculate_traditional_score without the system branch
TraditionalScoreComponentOnly(q, columns, row) ==
    FieldScore(Lower(query_mapping[q].component),
               Lower(RowGet(columns, row, "COMPONENT")), "component")

\* calculate_traditional_score(query, row, debug_info)
calculate_traditional_score(q, columns, row) ==
    FieldScore(Lower(query_mapping[q].component),
               Lower(RowGet(columns, row, "COMPONENT")), "component")
    + FieldScore(Lower(query_mapping[q].system),
                 Lower(RowGet(columns, row, "SYSTEM")), "system")

\* embedding_model.encode(text) inside a try block: the vector, or None
\* when encode raises
TryEncode(model, errors, text) ==
    IF text \in errors THEN None ELSE Encode(model, text)

\* get_query_embedding(query): the vector, or None
get_query_embedding(model, errors, q) ==
    IF model \in Models
    THEN TryEncode(model, errors, Lower(query_mapping[q].text))
    ELSE None

\* ((similarity + 1) / 2) * 5 * weight, or nothing when encode raised
SimilarityScore(query_embedding, cell_embedding, weight) ==
    IF cell_embedding = None THEN 0
    ELSE (cosine_similarity(query_embedding, cell_embedding) + 1) * 5 * weight

\* One column of the loop of calculate_embedding_score
CellEmbeddingScore(model, errors, query_embedding, col, cell) ==
    IF ~IsStr(cell) THEN 0
    ELSE SimilarityScore(query_embedding, TryEncode(model, errors, Lower(cell)),
                         WeightGet(col))

CellScores(model, errors, query_embedding, columns, row, cols) ==
    [k \in 1..Len(cols) |->
        CellEmbeddingScore(model, errors, query_embedding, columns[cols[k]],
                           row[cols[k]])]

\* The condition under which calculate_embedding_score scores anything
EmbeddingActive(model, query_embedding) ==
    model \in Models /\ query_embedding # None

\* calculate_embedding_score with one try block around the whole loop, the
\* score being 0 when any cell fails to encode
EmbeddingScoreAllOrNothing(model, errors, query_embedding, df, row) ==
    IF /\ EmbeddingActive(model, query_embedding)
       /\ \A c \in 1..Len(row) : ~(IsStr(row[c]) /\ Lower(row[c]) \in errors)
    THEN SumSeq(CellScores(model, errors, query_embedding, df.columns, row,
                           ObjectColumns(df)))
    ELSE 0

\* calculate_embedding_score(query_embedding, query_df, row, debug_info)
calculate_embedding_score(model, errors, query_embedding, df, row) ==
    IF EmbeddingActive(model, query_embedding)
    THEN SumSeq(CellScores(model, errors, query_embedding, df.columns, row,
                           ObjectColumns(df)))
    ELSE 0

\* DebugInfo with score = embedding_score, the traditional term left out
DebugInfoEmbeddingOnly(query, traditional_score, embedding_score, active) ==
    [query |-> query,
     traditional_score |-> <<traditional_score>>,
     embedding_score |-> IF active THEN <<embedding_score>> ELSE << >>,
     final_score |-> embedding_score]

\* The debug_info that calculate_score builds; final_score is its result
DebugInfo(query, traditional_score, embedding_score, active) ==
    [query |-> query,
     traditional_score |-> <<traditional_score>>,
     embedding_score |-> IF active THEN <<embedding_score>> ELSE << >>,
     final_score |-> traditional_score + embedding_score]

ScoreWith(model, errors, q, df, row, query_embedding) ==
    DebugInfo(query_mapping[q].query,
              calculate_traditional_score(q, df.columns, row),
              calculate_embedding_score(model, errors, query_embedding, df, row),
              EmbeddingActive(model, query_embedding))

\* calculate_score(query, query_df, row)
calculate_score(model, errors, q, df, row) ==
    ScoreWith(model, errors, q, df, row, get_query_embedding(model, errors, q))

(***************************************************************************)
(* process_folder, one (query, file) pair at a time.                       *)
(***************************************************************************)
\* row.iloc[19] is the highest position that the projection reads
ProjectionRaises(row) == Len(row) < 20

RowRaises(df, r) ==
    TraditionalRaises(df.columns, df.rows[r]) \/ ProjectionRaises(df.rows[r])

ErrorOfRow(df, r) ==
    IF TraditionalRaises(df.columns, df.rows[r])
    THEN "AttributeError" ELSE "IndexError"

\* The exception of the first row of the scoring loop that raises one
ScoringError(df) ==
    IF \E r \in 1..Len(df.rows) : RowRaises(df, r)
    THEN ErrorOfRow(df, CHOOSE k \in 1..Len(df.rows) :
                            RowRaises(df, k) /\ \A m \in 1..(k - 1) : ~RowRaises(df, m))
    ELSE "ok"

Outcome(result, df) == [result |-> result, df |-> df]

Scorable(df) == Outcome(ScoringError(df), df)

NameCells(df, n) == {df.rows[r][n] : r \in 1..Len(df.rows)}

Prepared(std) ==
    IF ~HasColumn(std.columns, "NAME") THEN Outcome("KeyError", NoDataset)
    ELSE IF \E name \in NameCells(std, ColumnIndex(std.columns, "NAME")) :
                MeasurementRaises(name)
    THEN Outcome("IndexError", NoDataset)
    ELSE Scorable(CleanColumns(AddMeasurementType(std)))

\* Lines 399-414 and the exceptions of 416-421 for one file: "read_error"
\* (caught), the exception that leaves process_folder, or "ok" with the
\* DataFrame that is scored
PrepareFile(file) ==
    IF ~file.readable THEN Outcome("read_error", NoDataset)
    ELSE Prepared(Standardize(file))

\* The list appended to all_results for one row
ResultRow(query, row, score) ==
    [Query |-> query, LOINC_Code |-> row[1], Name |-> row[15],
     Component |-> row[2], System |-> row[5], Property |-> row[3],
     Measurement |-> row[20], Score |-> score]

ResultRows(query, df, infos) ==
    [r \in 1..Len(df.rows) |->
        ResultRow(query, df.rows[r], infos[r].final_score)]

\* The calls of calculate_score of the loop of lines 416-417
ScoreFile(model, errors, q, df) ==
    [r \in 1..Len(df.rows) |-> calculate_score(model, errors, q, df, df.rows[r])]

(***************************************************************************)
(* Normalisation, de-duplication and the output file.                      *)
(***************************************************************************)
\* The lambda with s in place of s - min_score
NormalizeScoreNoShift(s, min_score, max_score) ==
    IF max_score # min_score
    THEN Frac(s, max_score - min_score)
    ELSE One

\* The lambda of lines 430-432
NormalizeScore(s, min_score, max_score) ==
    IF max_score # min_score
    THEN Frac(s - min_score, max_score - min_score)
    ELSE One

\* One row of results_df once Normalized_Score has replaced Score
NormalizedRow(result, min_score, max_score) ==
    [Query |-> result.Query, LOINC_Code |-> result.LOINC_Code,
     Name |-> result.Name, Component |-> result.Component,
     System |-> result.System, Property |-> result.Property,
     Measurement |-> result.Measurement,
     Normalized_Score |-> NormalizeScore(result.Score, min_score, max_score)]

NormalizeRows(results, min_score, max_score) ==
    [i \in 1..Len(results) |-> NormalizedRow(results[i], min_score, max_score)]

Scores(results) == [i \in 1..Len(results) |-> results[i].Score]

\* Normalisation with the minimum and maximum of each query's own rows
NormalizeWithin(result, group) ==
    NormalizedRow(result,
                  CHOOSE m \in group : \A v \in group : m <= v,
                  CHOOSE m \in group : \A v \in group : m >= v)

NormalizePerQuery(results) ==
    [i \in 1..Len(results) |->
        NormalizeWithin(results[i],
            {results[j].Score :
                j \in {k \in 1..Len(results) : results[k].Query = results[i].Query}})]

\* Lines 424-434: the Normalized_Score column replaces the Score column
Normalize(results) ==
    NormalizeRows(results, SeqMin(Scores(results)), SeqMax(Scores(results)))

\* The order of two characters, for the sort of the group keys
CharOrd(ch) ==
    IF \E i \in 1..26 : LowerLetters[i] = ch
    THEN CHOOSE i \in 1..26 : LowerLetters[i] = ch
    ELSE 0

\* a < b for two strings
RECURSIVE StrLess(_, _)
StrLess(a, b) ==
    IF b = << >> THEN FALSE
    ELSE IF a = << >> THEN TRUE
    ELSE IF CharOrd(a[1]) # CharOrd(b[1]) THEN CharOrd(a[1]) < CharOrd(b[1])
    ELSE StrLess(Tail(a), Tail(b))

Rank(table, q) ==
    Cardinality({p \in 1..Len(table) : StrLess(table[p].text, table[q].text)})

\* The positions of a table of queries, sorted by query text
SortedPositions(table) ==
    [k \in 1..Len(table) |-> CHOOSE q \in 1..Len(table) : Rank(table, q) = k - 1]

\* groupby("Query") visits the groups in sorted key order: the query names
GroupOrder == 
    [k \in Queries |-> query_mapping[SortedPositions(query_mapping)[k]].query]

\* drop_duplicates with keep="last"
KeptLast(df, i) ==
    \A j \in (i + 1)..Len(df) :
        ~(df[j].Query = df[i].Query /\ df[j].LOINC_Code = df[i].LOINC_Code)

\* group.drop_duplicates(subset="LOINC Code", keep="first") keeps row i
KeptFirst(df, i) ==
    \A j \in 1..(i - 1) :
        ~(df[j].Query = df[i].Query /\ df[j].LOINC_Code = df[i].LOINC_Code)

\* The rows of df at the positions of keep, from position i on, in order
RECURSIVE SelectRows(_, _, _)
SelectRows(df, i, keep) ==
    IF i > Len(df) THEN << >>
    ELSE IF i \in keep THEN <<df[i]>> \o SelectRows(df, i + 1, keep)
    ELSE SelectRows(df, i + 1, keep)

\* The rows that drop_duplicates keeps of the group of one query
GroupKept(df, query) ==
    SelectRows(df, 1, {i \in 1..Len(df) : df[i].Query = query /\ KeptFirst(df, i)})

\* The de-duplicated groups from the k-th on, concatenated
RECURSIVE ConcatGroups(_, _, _)
ConcatGroups(df, order, k) ==
    IF k > Len(order) THEN << >>
    ELSE GroupKept(df, order[k]) \o ConcatGroups(df, order, k + 1)

\* Lines 436-438: groupby("Query", group_keys=False).apply(drop_duplicates).
\* When no group loses a row pandas restores the original row order; when
\* one does, the groups are concatenated in sorted key order
DropDuplicatesPerQuery(df) ==
    IF \A i \in 1..Len(df) : KeptFirst(df, i) THEN df
    ELSE ConcatGroups(df, GroupOrder, 1)

\* The header line of the output CSV: the column titles (the title of the
\* score column is written <<0, 0>>, which is no fraction)
HeaderRow ==
    [Query |-> "Query", LOINC_Code |-> <<"LOINC Code">>, Name |-> <<"Name">>,
     Component |-> <<"Component">>, System |-> <<"System">>,
     Property |-> <<"Property">>, Measurement |-> <<"Measurement">>,
     Normalized_Score |-> <<0, 0>>]

\* to_csv with header=True
to_csv_header_always(file, df) ==
    [exists |-> TRUE, lines |-> file.lines \o <<HeaderRow>> \o df]

HeaderLines(header) == IF header THEN <<HeaderRow>> ELSE << >>

\* results_df.to_csv(output_filename, mode='a', index=False,
\*                   header=not os.path.exists(output_filename))
to_csv(file, df) ==
    [exists |-> TRUE, lines |-> file.lines \o HeaderLines(~file.exists) \o df]

(***************************************************************************)
(* Bounds of the model.                                                    *)
(***************************************************************************)
\* The largest number of .csv files in the input folder
MaxFiles == 2

\* The largest number of executions of process_folder
MaxRuns == 2

Extensions(shorter, S) ==
    {Append(p[1], p[2]) : p \in {p \in shorter \X S : p[2] \notin Range(p[1])}}

WithExtensions(shorter, S) == shorter \cup Extensions(shorter, S)

\* The sequences of at most n distinct elements of S
RECURSIVE DistinctSeqs(_, _)
DistinctSeqs(S, n) ==
    IF n = 0 THEN {<< >>} ELSE WithExtensions(DistinctSeqs(S, n - 1), S)

\* The listings os.listdir(csv_folder) can give, filtered to .csv names
Folders == DistinctSeqs(FileNames, MaxFiles)

\* The sets of texts on which the encode of a loaded model raises
EncodeErrorSets ==
    { {}, {w_glucose \o Sp \o w_in \o Sp \o w_blood}, {w_blood} }

(***************************************************************************)
(* State.                                                                  *)
(***************************************************************************)
VARIABLES
    load_pc,          \* position in the cell that constructs embedding_model
    embedding_model,  \* the global: "unset", a model name, or "None"
    encode_errors,    \* the texts on which embedding_model.encode raises
    csv_files,        \* the .csv files of the input folder, in listing order
    output_file,      \* dataset_scores_enhanced.csv: exists, lines
    pc,               \* position in process_folder
    pos,              \* number of (query, file) pairs the loops have passed
    all_results,      \* the list all_results
    dataset,          \* the DataFrame of the file processed last
    debug_log,        \* the debug_info of each row of that file
    results_df,       \* the DataFrame results_df
    raised,           \* the exception that ended the last run, or "none"
    runs,             \* executions of process_folder started so far
    fn,               \* the text function applied last, or "none"
    text_in,          \* the argument it was applied to
    text_out          \* the value it returned

vars ==
    <<load_pc, embedding_model, encode_errors, csv_files, output_file, pc, pos,
      all_results, dataset, debug_log, results_df, raised, runs, fn, text_in,
      text_out>>

fnVars == <<fn, text_in, text_out>>

loadVars == <<load_pc, embedding_model, encode_errors>>

Init ==
    /\ load_pc = "primary"
    /\ embedding_model = "unset"
    /\ encode_errors = {}
    /\ csv_files \in Folders
    /\ output_file = [exists |-> FALSE, lines |-> << >>]
    /\ pc = "idle"
    /\ pos = 0
    /\ all_results = << >>
    /\ dataset = NoDataset
    /\ debug_log = << >>
    /\ results_df = << >>
    /\ raised = "none"
    /\ runs = 0
    /\ fn = "none"
    /\ text_in = << >>
    /\ text_out = << >>

(***************************************************************************)
(* The cell that constructs embedding_model.                               *)
(***************************************************************************)
runVars == <<pc, pos, all_results, dataset, debug_log, results_df, raised, runs>>

\* SentenceTransformer('pritamdeka/BioBERT-MNLI') succeeds
LoadPrimary ==
    /\ load_pc = "primary"
    /\ \E errors \in EncodeErrorSets : encode_errors' = errors
    /\ embedding_model' = "BioBERT-MNLI"
    /\ load_pc' = "done"
    /\ UNCHANGED <<fnVars, csv_files, output_file, runVars>>

\* ... raises: the except branch is entered
PrimaryFails ==
    /\ load_pc = "primary"
    /\ load_pc' = "secondary"
    /\ UNCHANGED <<embedding_model, encode_errors, fnVars, csv_files, output_file, runVars>>

\* SentenceTransformer('all-MiniLM-L6-v2') succeeds
LoadSecondary ==
    /\ load_pc = "secondary"
    /\ \E errors \in EncodeErrorSets : encode_errors' = errors
    /\ embedding_model' = "all-MiniLM-L6-v2"
    /\ load_pc' = "done"
    /\ UNCHANGED <<fnVars, csv_files, output_file, runVars>>

\* ... raises too: embedding_model = None
SecondaryFails ==
    /\ load_pc = "secondary"
    /\ embedding_model' = "None"
    /\ load_pc' = "done"
    /\ UNCHANGED <<encode_errors, fnVars, csv_files, output_file, runVars>>

\* The guard with "not embedding_model" in place of the test on globals()
NotTruthy(model) == model \in {"unset", "None"}

\* 'embedding_model' not in globals()
NotInGlobals(model) == model = "unset"

\* The cell is executed again between two runs: the guard of line 220
\* decides whether the constructions are attempted
RunLoadCellAgain ==
    /\ load_pc = "done"
    /\ pc = "idle"
    /\ load_pc' = IF NotInGlobals(embedding_model) THEN "primary" ELSE "done"
    /\ UNCHANGED <<embedding_model, encode_errors, fnVars, csv_files,
                   output_file, runVars>>

(***************************************************************************)
(* process_folder.                                                         *)
(***************************************************************************)
Pairs == Len(query_mapping) * Len(csv_files)

\* The loop variables of the pair that is processed next: the position of
\* query_name in query_mapping, and csv_file
query_name == (pos \div Len(csv_files)) + 1
csv_file == csv_files[(pos % Len(csv_files)) + 1]

\* Lines 387-390
StartRun ==
    /\ pc = "idle"
    /\ load_pc = "done"
    /\ runs < MaxRuns
    /\ runs' = runs + 1
    /\ pc' = "loop"
    /\ pos' = 0
    /\ all_results' = << >>
    /\ dataset' = NoDataset
    /\ debug_log' = << >>
    /\ results_df' = << >>
    /\ raised' = "none"
    /\ UNCHANGED <<loadVars, fnVars, csv_files, output_file>>

\* Lines 399-403: read_csv raises, the file is skipped
SkipUnreadable ==
    /\ pc = "loop"
    /\ pos < Pairs
    /\ ~read_csv(csv_file).readable
    /\ pos' = pos + 1
    /\ UNCHANGED <<loadVars, fnVars, csv_files, output_file, pc, all_results, dataset,
                   debug_log, results_df, raised, runs>>

\* Lines 400-421 for a file that is read and processed without an exception
ProcessFile ==
    /\ pc = "loop"
    /\ pos < Pairs
    /\ \E out \in {PrepareFile(read_csv(csv_file))} :
          /\ out.result = "ok"
          /\ \E infos \in {ScoreFile(embedding_model, encode_errors,
                                     query_name, out.df)} :
                /\ dataset' = out.df
                /\ debug_log' = infos
                /\ all_results' = all_results \o
                       ResultRows(query_mapping[query_name].query, out.df, infos)
    /\ pos' = pos + 1
    /\ UNCHANGED <<loadVars, fnVars, csv_files, output_file, pc, results_df, raised, runs>>

\* Lines 405-421 raise: the exception leaves process_folder, whose locals
\* are lost; nothing is written
FileRaises ==
    /\ pc = "loop"
    /\ pos < Pairs
    /\ \E out \in {PrepareFile(read_csv(csv_file))} :
          /\ out.result \notin {"ok", "read_error"}
          /\ raised' = out.result
    /\ pc' = "idle"
    /\ all_results' = << >>
    /\ UNCHANGED <<loadVars, fnVars, csv_files, output_file, pos, dataset, debug_log,
                   results_df, runs>>

\* Line 423 with an empty all_results: process_folder returns
NothingToSave ==
    /\ pc = "loop"
    /\ pos = Pairs
    /\ all_results = << >>
    /\ pc' = "idle"
    /\ UNCHANGED <<loadVars, fnVars, csv_files, output_file, pos, all_results, dataset,
                   debug_log, results_df, raised, runs>>

\* Lines 423-434
NormalizeStep ==
    /\ pc = "loop"
    /\ pos = Pairs
    /\ all_results # << >>
    /\ results_df' = Normalize(all_results)
    /\ pc' = "dedup"
    /\ UNCHANGED <<loadVars, fnVars, csv_files, output_file, pos, all_results, dataset,
                   debug_log, raised, runs>>

\* Lines 436-438
DedupStep ==
    /\ pc = "dedup"
    /\ results_df' = DropDuplicatesPerQuery(results_df)
    /\ pc' = "persist"
    /\ UNCHANGED <<loadVars, fnVars, csv_files, output_file, pos, all_results, dataset,
                   debug_log, raised, runs>>

\* Lines 440-441
Persist ==
    /\ pc = "persist"
    /\ output_file' = to_csv(output_file, results_df)
    /\ pc' = "idle"
    /\ UNCHANGED <<loadVars, fnVars, csv_files, pos, all_results, dataset, debug_log,
                   results_df, raised, runs>>

Next ==
    \/ LoadPrimary
    \/ PrimaryFails
    \/ LoadSecondary
    \/ SecondaryFails
    \/ RunLoadCellAgain
    \/ StartRun
    \/ SkipUnreadable
    \/ ProcessFile
    \/ FileRaises
    \/ NothingToSave
    \/ NormalizeStep
    \/ DedupStep
    \/ Persist

Spec == Init /\ [][Next]_vars

(***************************************************************************)
(* The text functions on their own: clean_text, replace_abbreviations and  *)
(* the lambda that derives MEASUREMENT_TYPE, applied to the texts built    *)
(* from a few pieces, and to a value that is not text.                     *)
(***************************************************************************)
\* The largest number of pieces of an input text
MaxPieces == 3

\* An abbreviation, the abbreviation that occurs in its own expansion, the
\* upper-case abbreviation, a stop word, a plural, and separators
Pieces ==
    { <<"b", "l", "d">>, <<"a", "b", "o">>, <<"X", "X", "X">>, w_in,
      <<"C", "e", "l", "l", "s">>, Sp, <<"_">>, <<",">>, <<"[">>, <<"]">> }

AppendPiece(shorter) == {t[1] \o t[2] : t \in shorter \X Pieces}

WithOneMore(shorter) == shorter \cup AppendPiece(shorter)

\* The concatenations of at most n pieces
RECURSIVE TextsOf(_)
TextsOf(n) == IF n = 0 THEN {EmptyStr} ELSE WithOneMore(TextsOf(n - 1))

\* The arguments: texts, and NaN
Inputs == TextsOf(MaxPieces) \cup {NaN}

TextInit ==
    /\ load_pc = "primary"
    /\ embedding_model = "unset"
    /\ encode_errors = {}
    /\ csv_files = << >>
    /\ output_file = [exists |-> FALSE, lines |-> << >>]
    /\ pc = "idle"
    /\ pos = 0
    /\ all_results = << >>
    /\ dataset = NoDataset
    /\ debug_log = << >>
    /\ results_df = << >>
    /\ raised = "none"
    /\ runs = 0
    /\ fn = "none"
    /\ text_in \in Inputs
    /\ text_out = << >>

progVars == <<loadVars, csv_files, output_file, runVars>>

\* clean_text(text_in)
CallCleanText ==
    /\ fn = "none"
    /\ fn' = "clean_text"
    /\ text_out' = clean_text(text_in)
    /\ UNCHANGED <<text_in, progVars>>

\* replace_abbreviations(text_in)
CallReplaceAbbreviations ==
    /\ fn = "none"
    /\ fn' = "replace_abbreviations"
    /\ text_out' = replace_abbreviations(text_in)
    /\ UNCHANGED <<text_in, progVars>>

\* replace_abbreviations applied to its own result
CallReplaceAbbreviationsAgain ==
    /\ fn = "replace_abbreviations"
    /\ fn' = "replace_abbreviations twice"
    /\ text_out' = replace_abbreviations(text_out)
    /\ UNCHANGED <<text_in, progVars>>

\* The lambda of lines 407-409 applied to text_in returns
CallMeasurementType ==
    /\ fn = "none"
    /\ ~MeasurementRaises(text_in)
    /\ fn' = "measurement_type"
    /\ text_out' = MeasurementType(text_in)
    /\ UNCHANGED <<text_in, progVars>>

\* ... raises IndexError
MeasurementTypeRaises ==
    /\ fn = "none"
    /\ MeasurementRaises(text_in)
    /\ fn' = "IndexError"
    /\ UNCHANGED <<text_in, text_out, progVars>>

TextNext ==
    \/ CallCleanText
    \/ CallReplaceAbbreviations
    \/ CallReplaceAbbreviationsAgain
    \/ CallMeasurementType
    \/ MeasurementTypeRaises

TextSpec == TextInit /\ [][TextNext]_vars

(***************************************************************************)
(* Properties.                                                             *)
(***************************************************************************)
\* The position in query_mapping of a query name
QueryIndex(name) == CHOOSE q \in Queries : query_mapping[q].query = name

\* The key under which the rows of a batch are de-duplicated
RowKey(r) == <<r.Query, r.LOINC_Code>>

\* Two rows agree on every projected field
SameFields(r, a) ==
    /\ r.Query = a.Query
    /\ r.LOINC_Code = a.LOINC_Code
    /\ r.Name = a.Name
    /\ r.Component = a.Component
    /\ r.System = a.System
    /\ r.Property = a.Property
    /\ r.Measurement = a.Measurement

\* Row k is the first of its key in processing order
FirstProduced(results, k) ==
    \A j \in 1..(k - 1) : RowKey(results[j]) # RowKey(results[k])

\* C1: in the batch a run is about to persist, no two rows of a query share
\* a LOINC Code; each kept row is the row of its (query, identifier) pair
\* that was produced first; every (query, identifier) pair that was produced
\* is still there, so only later rows of the same pair are discarded.
C1_DedupKeepsFirstSeen ==
    pc = "persist" =>
        /\ \A i, j \in 1..Len(results_df) :
              i # j => RowKey(results_df[i]) # RowKey(results_df[j])
        /\ \A i \in 1..Len(results_df) :
              \E k \in 1..Len(all_results) :
                  /\ FirstProduced(all_results, k)
                  /\ SameFields(results_df[i], all_results[k])
        /\ \A k \in 1..Len(all_results) :
              \E i \in 1..Len(results_df) :
                  RowKey(results_df[i]) = RowKey(all_results[k])

\* A batch in which a later row of a (query, identifier) pair was discarded
\* while the same identifier is kept under another query
C1_Witness ==
    /\ pc = "persist"
    /\ Len(results_df) < Len(all_results)
    /\ \E i, j \in 1..Len(results_df) :
          /\ results_df[i].LOINC_Code = results_df[j].LOINC_Code
          /\ results_df[i].Query # results_df[j].Query

\* m is the least (sign = 1) or greatest (sign = -1) raw score of the batch
IsExtreme(results, m, sign) ==
    /\ \E i \in 1..Len(results) : results[i].Score = m
    /\ \A i \in 1..Len(results) : sign * m <= sign * results[i].Score

\* The fraction f equals n / d
FracEquals(f, n, d) == f[2] > 0 /\ f[1] * d = f[2] * n

C3_Scenario ==
    /\ embedding_model = "None"
    /\ csv_files = <<"glucose.csv">>
    /\ pc = "dedup"

C3_Records ==
    /\ all_results[1].Query = "glucose in blood"
    /\ all_results[1].Component = w_glucose
    /\ all_results[1].System = w_blood
    /\ all_results[2].Component = w_glucose \o Sp \o w_urine
    /\ all_results[2].System = w_blood
    /\ all_results[3].Component = w_bilirubin
    /\ all_results[3].System = w_serum
    /\ IsExtreme(all_results, 0, 1)
    /\ IsExtreme(all_results, 180, -1)

\* C3, as amended: in the scenario A scores 45, B scores 18 + 9 = 27 and C
\* scores 0 (in quarter units 180, 108 and 0), and the normalised scores are
\* 1, 27 / 45 = 3/5 and 0.
C3_ScenarioScores ==
    C3_Scenario =>
        /\ C3_Records
        /\ all_results[1].Score = 180
        /\ all_results[2].Score = 108
        /\ all_results[3].Score = 0
        /\ results_df[1].Normalized_Score = <<1, 1>>
        /\ results_df[2].Normalized_Score = <<3, 5>>
        /\ results_df[3].Normalized_Score = <<0, 1>>

\* C3, as stated: B scores 22.5 + 9 = 31.5 (126 quarter units) and is
\* normalised to 0.7.
C3_Original ==
    C3_Scenario =>
        /\ C3_Records
        /\ all_results[1].Score = 180
        /\ all_results[2].Score = 126
        /\ all_results[3].Score = 0
        /\ results_df[1].Normalized_Score = <<1, 1>>
        /\ results_df[2].Normalized_Score = <<7, 10>>
        /\ results_df[3].Normalized_Score = <<0, 1>>

C3_Witness == C3_Scenario /\ Len(results_df) = Len(all_results)

\* The points of one field under the stated rule, in quarter units
StatedPoints(term, field, exact, partial) ==
    IF field = term THEN exact
    ELSE IF Contains(field, term) THEN partial
    ELSE 0

StatedTraditionalScore(q, columns, row) ==
    StatedPoints(query_mapping[q].component,
                 Lower(RowGet(columns, row, "COMPONENT")), 144, 72)
    + StatedPoints(query_mapping[q].system,
                   Lower(RowGet(columns, row, "SYSTEM")), 36, 18)

\* C4: for every query and record, calculate_traditional_score is the sum
\* over component (weight 6) and system (weight 3) of weight squared on
\* equality, half of it when the term is a proper substring, 0 otherwise
\* (in quarter units: 144 / 72 and 36 / 18).
C4_TraditionalScoreRule ==
    \A r \in 1..Len(debug_log) :
        debug_log[r].traditional_score =
            <<StatedTraditionalScore(QueryIndex(debug_log[r].query),
                                     dataset.columns, dataset.rows[r])>>

\* A file with a record matched by substring on both fields (22.5), in a run
\* that has also scored an exact match on both fields (45)
C4_Witness ==
    /\ \E r \in 1..Len(debug_log) :
          /\ debug_log[r].traditional_score = <<90>>
          /\ Lower(RowGet(dataset.columns, dataset.rows[r], "COMPONENT"))
                 # query_mapping[QueryIndex(debug_log[r].query)].component
          /\ Lower(RowGet(dataset.columns, dataset.rows[r], "SYSTEM"))
                 # query_mapping[QueryIndex(debug_log[r].query)].system
    /\ embedding_model = "None"
    /\ \E i \in 1..Len(all_results) : all_results[i].Score = 180

\* C5: without an embedding backend calculate_embedding_score adds nothing
\* and returns 0, and calculate_score returns the value of
\* calculate_traditional_score, which is the score of the result row.
C5_NoBackendScoreIsTraditional ==
    embedding_model = "None" =>
        \A r \in 1..Len(debug_log) :
            /\ debug_log[r].embedding_score = << >>
            /\ debug_log[r].final_score =
                   calculate_traditional_score(QueryIndex(debug_log[r].query),
                                               dataset.columns, dataset.rows[r])
            /\ Len(all_results) >= Len(debug_log) =>
                   all_results[Len(all_results) - Len(debug_log) + r].Score =
                       debug_log[r].traditional_score[1]

\* Records scored without a backend, one of them with a positive score
C5_Witness ==
    /\ embedding_model = "None"
    /\ Len(all_results) >= Len(debug_log)
    /\ \E r \in 1..Len(debug_log) : debug_log[r].final_score > 0

\* Two records of a file differ in the identifier column and in no other
DifferOnlyInIdentifier(columns, a, b) ==
    /\ a # b
    /\ \A c \in 1..Len(columns) : columns[c] # "LOINC_NUM" => a[c] = b[c]

\* C6, as stated: two records of a file that differ only in LOINC_NUM get
\* the same score from calculate_score, with or without a backend.
C6_IdentifierNeverInfluencesScore ==
    \A r1, r2 \in 1..Len(debug_log) :
        DifferOnlyInIdentifier(dataset.columns, dataset.rows[r1], dataset.rows[r2])
            => debug_log[r1].final_score = debug_log[r2].final_score

\* The output file holds nothing, or one header line followed by result rows
HeaderOnce(file) ==
    IF file.exists
    THEN /\ file.lines # << >>
         /\ file.lines[1] = HeaderRow
         /\ \A i \in 2..Len(file.lines) : file.lines[i] # HeaderRow
    ELSE file.lines = << >>

\* C7: the output file changes only when a run persists its batch; the run
\* appends the de-duplicated batch after the lines already there, writing
\* the header first exactly when the file did not exist; so the file is
\* always one header line followed by the batches in run order.
C7_OutputAppendOnly ==
    [][ /\ output_file' # output_file => pc = "persist"
        /\ pc = "persist" =>
              /\ output_file'.exists
              /\ output_file'.lines =
                     output_file.lines
                     \o (IF output_file.exists THEN << >> ELSE <<HeaderRow>>)
                     \o results_df
        /\ HeaderOnce(output_file') ]_vars

\* Two runs have persisted a batch each
C7_Witness ==
    /\ pc = "idle"
    /\ runs = 2
    /\ results_df # << >>
    /\ Len(output_file.lines) = 1 + 2 * Len(results_df)

Readable(k) == read_csv(csv_files[k]).readable

\* The run has passed a (query, file) pair whose file could not be read
SkippedSome == \E p \in 0..(pos - 1) : ~Readable((p % Len(csv_files)) + 1)

\* C8, as stated: once a run has skipped a file that could not be read, it
\* does not end before it persists when some file is readable, and the
\* batch it persists holds a row for every query and every record of every
\* readable file.
C8_ReadFailureSkipsOnlyThatFile ==
    [][ SkippedSome =>
            /\ (pc = "loop" /\ pc' = "idle") =>
                   \A k \in 1..Len(csv_files) : ~Readable(k)
            /\ pc = "persist" =>
                   \A q \in Queries, k \in 1..Len(csv_files) :
                       Readable(k) =>
                           \A r \in 1..Len(read_csv(csv_files[k]).rows) :
                               \E i \in 1..Len(results_df) :
                                   RowKey(results_df[i]) =
                                       <<query_mapping[q].query,
                                         read_csv(csv_files[k]).rows[r][1]>> ]_vars

\* C9, as stated: a run never ends without persisting while it holds
\* results of pairs it has processed, and what it persists holds every
\* (query, identifier) pair it has produced.
C9_FailureDoesNotStopBatch ==
    [][ /\ (pc = "loop" /\ pc' = "idle") => all_results = << >>
        /\ pc = "persist" =>
              \A k \in 1..Len(all_results) :
                  \E i \in (Len(output_file.lines) + 1)..Len(output_file'.lines) :
                      /\ output_file'.lines[i] # HeaderRow
                      /\ RowKey(output_file'.lines[i]) = RowKey(all_results[k]) ]_vars

\* C10: every result row of the output file has a Normalized_Score n / d
\* with 0 <= n / d <= 1.
C10_PersistedScoresInUnitInterval ==
    \A i \in 1..Len(output_file.lines) :
        output_file.lines[i] # HeaderRow =>
            /\ output_file.lines[i].Normalized_Score[2] > 0
            /\ 0 <= output_file.lines[i].Normalized_Score[1]
            /\ output_file.lines[i].Normalized_Score[1]
                   <= output_file.lines[i].Normalized_Score[2]

\* A persisted row with a score strictly between 0 and 1, from a batch
\* whose least raw score is not 0
C10_Witness ==
    /\ pc = "idle"
    /\ all_results # << >>
    /\ \A k \in 1..Len(all_results) : all_results[k].Score > 0
    /\ \E i \in 2..Len(output_file.lines) :
          /\ 0 < output_file.lines[i].Normalized_Score[1]
          /\ output_file.lines[i].Normalized_Score[1]
                 < output_file.lines[i].Normalized_Score[2]

\* What the text columns of a row contribute when the encode of a cell in
\* failed raises and every other encode succeeds
ContributionsBut(failed, model, query_embedding, df, row) ==
    [k \in 1..Len(ObjectColumns(df)) |->
        IF IsStr(row[ObjectColumns(df)[k]])
           /\ Lower(row[ObjectColumns(df)[k]]) \in failed
        THEN 0
        ELSE CellEmbeddingScore(model, {}, query_embedding,
                                df.columns[ObjectColumns(df)[k]],
                                row[ObjectColumns(df)[k]])]

QueryText(name) == Lower(query_mapping[QueryIndex(name)].text)

\* C11: with a backend loaded, every row of a file is scored whatever
\* encode raises on; when the encode of the query raises, nothing is added
\* and the score of the row is its traditional score; when the encode of a
\* cell raises, that column contributes 0 and every other column
\* contributes what it contributes without the failure.
C11_EncodeFailureContained ==
    embedding_model \in Models =>
        /\ Len(debug_log) = Len(dataset.rows)
        /\ \A r \in 1..Len(debug_log) :
              IF QueryText(debug_log[r].query) \in encode_errors
              THEN /\ debug_log[r].embedding_score = << >>
                   /\ debug_log[r].final_score = debug_log[r].traditional_score[1]
              ELSE /\ debug_log[r].embedding_score =
                          <<SumSeq(ContributionsBut(encode_errors, embedding_model,
                                       Encode(embedding_model,
                                              QueryText(debug_log[r].query)),
                                       dataset, dataset.rows[r]))>>
                   /\ debug_log[r].final_score =
                          debug_log[r].traditional_score[1]
                          + debug_log[r].embedding_score[1]

\* A row with a cell on which encode raises, whose other columns contribute
C11_Witness ==
    /\ embedding_model \in Models
    /\ pc = "loop"
    /\ \E r \in 1..Len(debug_log) :
          /\ \E c \in 1..Len(dataset.columns) :
                /\ IsStr(dataset.rows[r][c])
                /\ Lower(dataset.rows[r][c]) \in encode_errors
          /\ debug_log[r].embedding_score # << >>
          /\ debug_log[r].embedding_score[1] > 0

\* The words of the text that replace_abbreviations is applied to
WordsIn(text) == IF IsStr(text) THEN Range(Split(text)) ELSE {}

\* C12, as amended: on every argument that has no word "abo",
\* replace_abbreviations applied to its own result returns that result.
C12_IdempotentWithoutAbo ==
    [][ (/\ fn = "replace_abbreviations"
         /\ fn' = "replace_abbreviations twice"
         /\ <<"a", "b", "o">> \notin WordsIn(text_in))
            => text_out' = text_out ]_vars

\* C12, as stated: on every argument, replace_abbreviations applied to its
\* own result returns that result.
C12_Original ==
    [][ (fn = "replace_abbreviations" /\ fn' = "replace_abbreviations twice")
            => text_out' = text_out ]_vars

\* A text whose abbreviation was expanded, after the second application
C12_Witness ==
    /\ fn = "replace_abbreviations twice"
    /\ <<"b", "l", "d">> \in WordsIn(text_in)
    /\ <<"a", "b", "o">> \notin WordsIn(text_in)
    /\ w_blood \in WordsIn(text_out)

\* Words separated by single spaces, with no space at either end
SingleSpaced(text) ==
    /\ text # << >> => text[1] # " " /\ text[Len(text)] # " "
    /\ \A i \in 1..(Len(text) - 1) : ~(text[i] = " " /\ text[i + 1] = " ")

\* C13, as stated: clean_text returns the empty string for an argument that
\* is not text, and for a text a string of letters, digits and single
\* separating spaces (no punctuation, no underscore) with no stop word.
C13_CleanTextOutput ==
    fn = "clean_text" =>
        IF IsStr(text_in)
        THEN /\ \A i \in 1..Len(text_out) :
                    text_out[i] \in Range(LowerLetters) \cup Range(UpperLetters)
                                    \cup Digits \cup {" "}
             /\ SingleSpaced(text_out)
             /\ \A w \in WordsIn(text_out) : w \notin stop_words
        ELSE text_out = EmptyStr

\* C14, as stated: for every value of the name field the derivation of
\* MEASUREMENT_TYPE does not fail, and gives the content of the first
\* bracketed substring when there is one and the empty string otherwise.
C14_MeasurementTypeDerivation ==
    /\ fn # "IndexError"
    /\ fn = "measurement_type" =>
          text_out = IF IsStr(text_in) /\ HasBracketGroup(text_in)
                     THEN FirstBracketGroup(text_in)
                     ELSE EmptyStr

\* The cell of a row of the DataFrame under a column name
Cell(df, row, name) == row[ColumnIndex(df.columns, name)]

\* C15, as stated: the result rows appended for a file hold, for each of its
\* records in order, the query and the record's own LOINC_NUM, NAME,
\* COMPONENT, SYSTEM, PROPERTY and MEASUREMENT_TYPE cells and its score.
C15_ProjectionHoldsOwnFields ==
    (dataset # NoDataset /\ Len(all_results) >= Len(dataset.rows)) =>
        \A r \in 1..Len(dataset.rows) :
            all_results[Len(all_results) - Len(dataset.rows) + r] =
                [Query |-> debug_log[r].query,
                 LOINC_Code |-> Cell(dataset, dataset.rows[r], "LOINC_NUM"),
                 Name |-> Cell(dataset, dataset.rows[r], "NAME"),
                 Component |-> Cell(dataset, dataset.rows[r], "COMPONENT"),
                 System |-> Cell(dataset, dataset.rows[r], "SYSTEM"),
                 Property |-> Cell(dataset, dataset.rows[r], "PROPERTY"),
                 Measurement |->
                     Cell(dataset, dataset.rows[r], "MEASUREMENT_TYPE"),
                 Score |-> debug_log[r].final_score]

\* The weight, doubled, that column_weights lists for the field of a column
ListedWeight(col) ==
    CASE col = "COMPONENT" -> 12
      [] col = "SYSTEM" -> 6
      [] col = "NAME" -> 3
      [] col = "STATUS" -> 1
      [] col = "LOINC_NUM" -> 0
      [] OTHER -> 2

\* ((similarity + 1) / 2) * 5 * the listed weight, for each text column
ListedContributions(model, query_embedding, df, row) ==
    [k \in 1..Len(ObjectColumns(df)) |->
        IF IsStr(row[ObjectColumns(df)[k]])
        THEN (cosine_similarity(query_embedding,
                                Encode(model, Lower(row[ObjectColumns(df)[k]])))
              + 1) * 5 * ListedWeight(df.columns[ObjectColumns(df)[k]])
        ELSE 0]

\* C16, as stated: with a backend on which no encode raises, the embedding
\* score of a row is the sum over its text columns of ((cosine similarity
\* + 1) / 2) * 5 * the weight column_weights lists for the column's field.
C16_EmbeddingUsesListedWeights ==
    (embedding_model \in Models /\ encode_errors = {}) =>
        \A r \in 1..Len(debug_log) :
            debug_log[r].embedding_score =
                <<SumSeq(ListedContributions(embedding_model,
                             Encode(embedding_model, QueryText(debug_log[r].query)),
                             dataset, dataset.rows[r]))>>

\* C17: the secondary construction is attempted only after the primary one
\* has failed; embedding_model is assigned once, a backend by the
\* construction that succeeded or None after both have failed; once the
\* cell has produced its result no construction is attempted again and the
\* result does not change; and after None every call of calculate_score
\* adds no embedding score.
C17_BackendInitialisedOnce ==
    [][ /\ (load_pc' = "secondary" /\ load_pc # "secondary") => load_pc = "primary"
        /\ embedding_model' # embedding_model =>
              /\ embedding_model = "unset"
              /\ load_pc' = "done"
              /\ embedding_model' = "BioBERT-MNLI" => load_pc = "primary"
              /\ embedding_model' = "all-MiniLM-L6-v2" => load_pc = "secondary"
              /\ embedding_model' = "None" => load_pc = "secondary"
        /\ load_pc = "done" => load_pc' = "done"
        /\ embedding_model' = "None" =>
              \A r \in 1..Len(debug_log') :
                  /\ debug_log'[r].embedding_score = << >>
                  /\ debug_log'[r].final_score =
                         debug_log'[r].traditional_score[1] ]_vars

\* The second run after both constructions have failed, with rows scored
C17_Witness ==
    /\ embedding_model = "None"
    /\ load_pc = "done"
    /\ runs = 2
    /\ pc = "loop"
    /\ debug_log # << >>

\* C18, as stated: when the raw scores of a batch are not all equal, the
\* rows that are persisted hold a Normalized_Score 0 and a Normalized_Score 1.
C18_PersistedBatchKeepsExtremes ==
    (/\ pc = "persist"
     /\ \E i, j \in 1..Len(all_results) :
            all_results[i].Score # all_results[j].Score) =>
        /\ \E i \in 1..Len(results_df) : results_df[i].Normalized_Score = <<0, 1>>
        /\ \E i \in 1..Len(results_df) : results_df[i].Normalized_Score = <<1, 1>>

\* The COMPONENT cell of a record as the file gives it, lower-cased
RawComponent(file, r) ==
    Lower(Cell(Standardize(file), Standardize(file).rows[r], "COMPONENT"))

\* C19, as stated: when a file is processed for a query, every record whose
\* component as read equals the query's component term, ignoring case, gets
\* at least the exact-match component contribution (36, in quarter units
\* 144) in its traditional score.
C19_RegistryTermMatchesRecord ==
    [][ (pc = "loop" /\ pc' = "loop" /\ all_results' # all_results) =>
            \A r \in 1..Len(read_csv(csv_file).rows) :
                RawComponent(read_csv(csv_file), r)
                        = query_mapping[query_name].component
                    => debug_log'[r].traditional_score[1] >= 144 ]_vars

=============================================================================
